---------------------------- MODULE Spec2Model ----------------------------
(***************************************************************************)
(* Model of the storage demo page (src/w5-lab-storage/src/app/home/        *)
(* home.page.ts): HomePage components, each with its own injected Storage  *)
(* object, calling an asynchronous key-value engine from UI handlers.      *)
(*                                                                         *)
(* The handlers are translated from home.page.ts.  The engine itself       *)
(* (@ionic/storage-angular) is an external collaborator whose code is not  *)
(* part of the repository; its behaviour is taken from the contract the    *)
(* specification gives for it (a persistent map from keys to values whose  *)
(* operations complete asynchronously and may fail).                       *)
(***************************************************************************)
EXTENDS Integers, Sequences, FiniteSets, TLC

\* ------------------------------------------------------------------ bounds

\* Number of HomePage component instances that can be alive at once.
NumPages == 2

\* Number of user actions in a run: edits of an input, clicks on a button,
\* navigations that instantiate another HomePage.
MaxActions == 3

Pages == 1..NumPages

\* Texts the user can type into the key input; '' is the field's initial value.
Keys == {"", "a"}

\* Texts the user can type into the value input; '' is the field's initial value.
Values == {"", "x"}

\* Every text that can reach the engine as a key.
Strs == Keys \cup Values

\* The absent sentinel (JavaScript null), distinct from every stored text.
Null == "<null>"

VARIABLES
    key,              \* key[p]: HomePage.key of page p
    value,            \* value[p]: HomePage.value of page p
    output,           \* output[p]: HomePage.output of page p
    handle,           \* handle[p]: state of page p's Storage object ("absent":
                      \* page p is not instantiated)
    store,            \* the persistent key-value mapping behind every Storage
    pending,          \* storage calls handed to the engine and not yet settled
    nacts,            \* user actions so far
    driverSelections, \* create() calls made so far, each one selecting a driver
    console,          \* what the page has written with console.error
    last,             \* history: the handler invocation that settled last
    shadow            \* history: per key, what the user last did to it with a
                      \* handler that settled successfully (how: "set",
                      \* "remove", "clear", or "none"), the value last set (val)
                      \* and the invocation that did it (id)

vars == <<key, value, output, handle, store, pending, nacts,
          driverSelections, console, last, shadow>>

\* ------------------------------------------------------- pure functions

\* String(v) as a template literal renders it: null prints as "null".
Str(v) == IF v = Null THEN "null" ELSE v

\* Array.prototype.join
RECURSIVE Join(_, _)
Join(ks, sep) ==
    IF Len(ks) = 0 THEN ""
    ELSE IF Len(ks) = 1 THEN Str(ks[1])
    ELSE Str(ks[1]) \o sep \o Join(Tail(ks), sep)

SetMsg(k, v) == "Set " \o k \o ": " \o v

GetMsg(k, v) == "Get " \o k \o ": " \o Str(v)

RemovedMsg(k) == "Removed " \o k

ClearedMsg == "Cleared all items"

KeysMsg(ks) == "Stored keys: " \o Join(ks, ", ")

LengthMsg(n) == "Number of key/value pairs: " \o ToString(n)

\* A slip in the visitor: forEach passes (value, key, index), and the visitor
\* takes its first two parameters in the order (key, value).
VisitorSwapped(result, v, k, index) ==
    result \o "Key: " \o Str(v) \o ", Value: " \o k
           \o ", Index: " \o ToString(index) \o "\n"

\* The visitor of enumerateItems: one line appended to result.
Visitor(result, v, k, index) ==
    result \o "Key: " \o k \o ", Value: " \o Str(v)
           \o ", Index: " \o ToString(index) \o "\n"

\* ------------------------------------------------------------ the engine

\* Keys that currently have an entry.
StoredKeys(s) == {k \in Strs : s[k] # Null}

\* Every order in which the keys of S can be listed.
Orders(S) ==
    {q \in [1..Cardinality(S) -> S] : \A i, j \in 1..Cardinality(S) : i # j => q[i] # q[j]}

\* The store after the engine has carried out operation op(k, v).
EngineStore(s, op, k, v) ==
    CASE op = "set"    -> [s EXCEPT ![k] = v]
      [] op = "remove" -> [s EXCEPT ![k] = Null]
      [] op = "clear"  -> [x \in Strs |-> Null]
      [] OTHER         -> s

EngineGet(s, k) == s[k]

EngineLength(s) == Cardinality(StoredKeys(s))

EngineKeys(s) == Orders(StoredKeys(s))

\* ------------------------------------------------------------------ init

NoCall ==
    [h |-> "none", page |-> 0, id |-> 0, fkey |-> "", fval |-> "", early |-> FALSE,
     ok |-> TRUE, wrote |-> FALSE, res |-> Null, n |-> 0, ks |-> <<>>,
     prev |-> 0, pval |-> Null, snap |-> [k \in Strs |-> Null]]

\* The application has just been installed and started: one page is freshly
\* constructed (key = value = output = '', Storage injected and not yet
\* created) and the persistent store holds no entry yet.
Init ==
    /\ key = [p \in Pages |-> ""]
    /\ value = [p \in Pages |-> ""]
    /\ output = [p \in Pages |-> ""]
    /\ handle = [p \in Pages |-> IF p = 1 THEN "none" ELSE "absent"]
    /\ store = [k \in Strs |-> Null]
    /\ pending = {}
    /\ nacts = 0
    /\ driverSelections = 0
    /\ console = <<>>
    /\ last = NoCall
    /\ shadow = [k \in Keys |-> [how |-> "none", val |-> Null, id |-> 0]]

\* ------------------------------------------------- the calls the page makes

\* A slip in setItem: the key is passed where the value belongs.
setItemCallKeyTwice(p) == [op |-> "set", key |-> key[p], val |-> key[p]]

\* A slip in setItem: the two arguments are passed in the wrong order.
setItemCallSwapped(p) == [op |-> "set", key |-> value[p], val |-> key[p]]

\* this.storage.set(this.key, this.value)
setItemCall(p) == [op |-> "set", key |-> key[p], val |-> value[p]]

\* this.storage.get(this.key)
getItemCall(p) == [op |-> "get", key |-> key[p], val |-> Null]

\* A slip in removeItem: the handler was copied from getItem and still reads.
removeItemCallAsGet(p) == [op |-> "get", key |-> key[p], val |-> Null]

\* this.storage.remove(this.key)
removeItemCall(p) == [op |-> "remove", key |-> key[p], val |-> Null]

\* A slip in clearStorage: the handler was copied from getLength and still
\* asks for the length.
clearStorageCallAsLength == [op |-> "length", key |-> "", val |-> Null]

\* this.storage.clear()
clearStorageCall == [op |-> "clear", key |-> "", val |-> Null]

\* this.storage.keys()
getKeysCall == [op |-> "keys", key |-> "", val |-> Null]

\* this.storage.length()
getLengthCall == [op |-> "length", key |-> "", val |-> Null]

\* this.storage.forEach(visitor), with result = '' before it
enumerateItemsCall == [op |-> "forEach", key |-> "", val |-> Null]

\* A handler may be invoked: Angular has run ngOnInit (it does so before any
\* event of the view is delivered), and the run's budget of clicks is not spent.
CanInvoke(p) ==
    /\ handle[p] \notin {"absent", "none"}
    /\ nacts < MaxActions

\* The call a handler hands to the page's Storage object when it reaches its
\* await.  The record keeps, beside the arguments passed, the fields the user
\* had entered (fkey, fval) and whether the page's initialization had
\* completed (early).
Call(p, h, call) ==
    [id |-> nacts + 1, page |-> p, h |-> h,
     op |-> call.op, key |-> call.key, val |-> call.val,
     fkey |-> key[p], fval |-> value[p],
     early |-> handle[p] # "ready",
     iter |-> FALSE, todo |-> <<>>, acc |-> "", idx |-> 0,
     snap |-> [k \in Strs |-> Null]]

\* What a settled invocation leaves in the history: whether the storage call
\* succeeded (ok), whether the handler went on to write output (wrote), what
\* the call returned (res, n, ks), and the set of the same key that had
\* settled before it (prev, pval), if any, and for a forEach the store as it
\* was when the pass began (snap).
Settled(c, ok, res, n, ks) ==
    [h |-> c.h, page |-> c.page, id |-> c.id, fkey |-> c.fkey, fval |-> c.fval,
     early |-> c.early, ok |-> ok, wrote |-> ok, res |-> res, n |-> n, ks |-> ks,
     prev |-> IF shadow[c.fkey].how = "set" THEN shadow[c.fkey].id ELSE 0,
     pval |-> IF shadow[c.fkey].how = "set" THEN shadow[c.fkey].val ELSE Null,
     snap |-> c.snap]

\* The engine can carry out c for handler h: only an initialized Storage
\* object carries out a call.
CanResume(c, h) ==
    /\ c.h = h
    /\ handle[c.page] = "ready"

\* --------------------------------------------------------------- ngOnInit

\* Another HomePage is instantiated.  The component declares
\* providers: [Storage], so the injector gives it a Storage object of its own.
Construct(p) ==
    /\ handle[p] = "absent"
    /\ nacts < MaxActions
    /\ nacts' = nacts + 1
    /\ handle' = [handle EXCEPT ![p] = "none"]
    /\ UNCHANGED <<key, value, output, store, pending, driverSelections,
                   console, last, shadow>>

\* ngOnInit up to its await: create() is called on the page's own Storage
\* object (providers: [Storage]) and starts a driver selection.
ngOnInit(p) ==
    /\ handle[p] = "none"
    /\ handle' = [handle EXCEPT ![p] = "inflight"]
    /\ driverSelections' = driverSelections + 1
    /\ UNCHANGED <<key, value, output, store, pending, nacts, console, last, shadow>>

\* create() resolves: a driver was initialized.
CreateResolve(p) ==
    /\ handle[p] = "inflight"
    /\ handle' = [handle EXCEPT ![p] = "ready"]
    /\ UNCHANGED <<key, value, output, store, pending, nacts, driverSelections,
                   console, last, shadow>>

\* create() rejects: no driver could be initialized; ngOnInit rejects too.
CreateReject(p) ==
    /\ handle[p] = "inflight"
    /\ handle' = [handle EXCEPT ![p] = "failed"]
    /\ UNCHANGED <<key, value, output, store, pending, nacts, driverSelections,
                   console, last, shadow>>

\* ------------------------------------------------------------- the inputs

\* The user edits the key input (two-way bound to HomePage.key).
EditKey(p, k) ==
    /\ handle[p] \notin {"absent", "none"}
    /\ nacts < MaxActions
    /\ k # key[p]
    /\ key' = [key EXCEPT ![p] = k]
    /\ nacts' = nacts + 1
    /\ UNCHANGED <<value, output, handle, store, pending, driverSelections,
                   console, last, shadow>>

\* The user edits the value input (two-way bound to HomePage.value).
EditValue(p, v) ==
    /\ handle[p] \notin {"absent", "none"}
    /\ nacts < MaxActions
    /\ v # value[p]
    /\ value' = [value EXCEPT ![p] = v]
    /\ nacts' = nacts + 1
    /\ UNCHANGED <<key, output, handle, store, pending, driverSelections,
                   console, last, shadow>>

\* ------------------------------------------------------------ the handlers

setItem(p) ==
    /\ CanInvoke(p)
    /\ pending' = pending \cup {Call(p, "setItem", setItemCall(p))}
    /\ nacts' = nacts + 1
    /\ UNCHANGED <<key, value, output, handle, store, driverSelections,
                   console, last, shadow>>

\* A layer that orders writes by issuance: a set that settles after a set of
\* the same key issued later is dropped.
setItemResumeByIssue(c) ==
    /\ CanResume(c, "setItem")
    /\ pending' = pending \ {c}
    /\ store' = IF shadow[c.fkey].how = "set" /\ shadow[c.fkey].id > c.id
                THEN store
                ELSE EngineStore(store, c.op, c.key, c.val)
    /\ output' = [output EXCEPT ![c.page] = SetMsg(key[c.page], value[c.page])]
    /\ last' = Settled(c, TRUE, Null, 0, <<>>)
    /\ shadow' = [shadow EXCEPT ![c.fkey] = [how |-> "set", val |-> c.fval, id |-> c.id]]
    /\ UNCHANGED <<key, value, handle, nacts, driverSelections, console>>

setItemResume(c) ==
    /\ CanResume(c, "setItem")
    /\ pending' = pending \ {c}
    /\ store' = EngineStore(store, c.op, c.key, c.val)
    /\ output' = [output EXCEPT ![c.page] = SetMsg(key[c.page], value[c.page])]
    /\ last' = Settled(c, TRUE, Null, 0, <<>>)
    /\ shadow' = [shadow EXCEPT ![c.fkey] = [how |-> "set", val |-> c.fval, id |-> c.id]]
    /\ UNCHANGED <<key, value, handle, nacts, driverSelections, console>>

getItem(p) ==
    /\ CanInvoke(p)
    /\ pending' = pending \cup {Call(p, "getItem", getItemCall(p))}
    /\ nacts' = nacts + 1
    /\ UNCHANGED <<key, value, output, handle, store, driverSelections,
                   console, last, shadow>>

getItemResume(c) ==
    /\ CanResume(c, "getItem")
    /\ pending' = pending \ {c}
    /\ store' = EngineStore(store, c.op, c.key, c.val)
    /\ output' = [output EXCEPT ![c.page] = GetMsg(key[c.page], EngineGet(store, c.key))]
    /\ last' = Settled(c, TRUE, EngineGet(store, c.key), 0, <<>>)
    /\ UNCHANGED <<key, value, handle, nacts, driverSelections, console, shadow>>

removeItem(p) ==
    /\ CanInvoke(p)
    /\ pending' = pending \cup {Call(p, "removeItem", removeItemCall(p))}
    /\ nacts' = nacts + 1
    /\ UNCHANGED <<key, value, output, handle, store, driverSelections,
                   console, last, shadow>>

removeItemResume(c) ==
    /\ CanResume(c, "removeItem")
    /\ pending' = pending \ {c}
    /\ store' = EngineStore(store, c.op, c.key, c.val)
    /\ output' = [output EXCEPT ![c.page] = RemovedMsg(key[c.page])]
    /\ last' = Settled(c, TRUE, Null, 0, <<>>)
    /\ shadow' = [shadow EXCEPT ![c.fkey] =
                    [how |-> "remove", val |-> shadow[c.fkey].val, id |-> c.id]]
    /\ UNCHANGED <<key, value, handle, nacts, driverSelections, console>>

clearStorage(p) ==
    /\ CanInvoke(p)
    /\ pending' = pending \cup {Call(p, "clearStorage", clearStorageCall)}
    /\ nacts' = nacts + 1
    /\ UNCHANGED <<key, value, output, handle, store, driverSelections,
                   console, last, shadow>>

clearStorageResume(c) ==
    /\ CanResume(c, "clearStorage")
    /\ pending' = pending \ {c}
    /\ store' = EngineStore(store, c.op, c.key, c.val)
    /\ output' = [output EXCEPT ![c.page] = ClearedMsg]
    /\ last' = Settled(c, TRUE, Null, 0, <<>>)
    /\ shadow' = [k \in Keys |->
                    [how |-> "clear", val |-> shadow[k].val, id |-> c.id]]
    /\ UNCHANGED <<key, value, handle, nacts, driverSelections, console>>

getKeys(p) ==
    /\ CanInvoke(p)
    /\ pending' = pending \cup {Call(p, "getKeys", getKeysCall)}
    /\ nacts' = nacts + 1
    /\ UNCHANGED <<key, value, output, handle, store, driverSelections,
                   console, last, shadow>>

getKeysResume(c) ==
    /\ CanResume(c, "getKeys")
    /\ pending' = pending \ {c}
    /\ store' = EngineStore(store, c.op, c.key, c.val)
    /\ \E ks \in EngineKeys(store) :
         /\ output' = [output EXCEPT ![c.page] = KeysMsg(ks)]
         /\ last' = Settled(c, TRUE, Null, 0, ks)
    /\ UNCHANGED <<key, value, handle, nacts, driverSelections, console, shadow>>

getLength(p) ==
    /\ CanInvoke(p)
    /\ pending' = pending \cup {Call(p, "getLength", getLengthCall)}
    /\ nacts' = nacts + 1
    /\ UNCHANGED <<key, value, output, handle, store, driverSelections,
                   console, last, shadow>>

getLengthResume(c) ==
    /\ CanResume(c, "getLength")
    /\ pending' = pending \ {c}
    /\ store' = EngineStore(store, c.op, c.key, c.val)
    /\ output' = [output EXCEPT ![c.page] = LengthMsg(EngineLength(store))]
    /\ last' = Settled(c, TRUE, Null, EngineLength(store), <<>>)
    /\ UNCHANGED <<key, value, handle, nacts, driverSelections, console, shadow>>

enumerateItems(p) ==
    /\ CanInvoke(p)
    /\ pending' = pending \cup {Call(p, "enumerateItems", enumerateItemsCall)}
    /\ nacts' = nacts + 1
    /\ UNCHANGED <<key, value, output, handle, store, driverSelections,
                   console, last, shadow>>

\* The engine starts the pass over the entries, in an order of its choosing.
forEachBegin(c) ==
    /\ c.op = "forEach"
    /\ ~c.iter
    /\ handle[c.page] = "ready"
    /\ \E q \in EngineKeys(store) :
         pending' = (pending \ {c}) \cup
            {[c EXCEPT !.iter = TRUE,
                       !.snap = store,
                       !.todo = [i \in 1..Len(q) |-> <<q[i], store[q[i]]>>]]}
    /\ UNCHANGED <<key, value, output, handle, store, nacts, driverSelections,
                   console, last, shadow>>

\* The engine hands the next entry to the visitor.
forEachVisit(c) ==
    /\ c.iter
    /\ c.todo # <<>>
    /\ pending' = (pending \ {c}) \cup
         {[c EXCEPT !.todo = Tail(c.todo),
                    !.idx = c.idx + 1,
                    !.acc = Visitor(c.acc, Head(c.todo)[2], Head(c.todo)[1], c.idx + 1)]}
    /\ UNCHANGED <<key, value, output, handle, store, nacts, driverSelections,
                   console, last, shadow>>

\* The pass is over: forEach resolves and the handler shows result.
enumerateItemsResume(c) ==
    /\ CanResume(c, "enumerateItems")
    /\ c.iter
    /\ c.todo = <<>>
    /\ pending' = pending \ {c}
    /\ output' = [output EXCEPT ![c.page] = c.acc]
    /\ last' = Settled(c, TRUE, Null, c.idx, <<>>)
    /\ UNCHANGED <<key, value, handle, store, nacts, driverSelections, console, shadow>>

\* The engine fails the call.  No handler has a try/catch: the await throws,
\* the rest of the handler is skipped, nothing is written to output or to the
\* console, and the promise the handler returned rejects.
Reject(c) ==
    /\ pending' = pending \ {c}
    /\ last' = Settled(c, FALSE, Null, 0, <<>>)
    /\ UNCHANGED <<key, value, output, handle, store, nacts, driverSelections,
                   console, shadow>>

\* ------------------------------------------------------------------ next

Next ==
    \/ \E p \in Pages : Construct(p)
    \/ \E p \in Pages : ngOnInit(p)
    \/ \E p \in Pages : CreateResolve(p)
    \/ \E p \in Pages : CreateReject(p)
    \/ \E p \in Pages, k \in Keys : EditKey(p, k)
    \/ \E p \in Pages, v \in Values : EditValue(p, v)
    \/ \E p \in Pages : setItem(p)
    \/ \E p \in Pages : getItem(p)
    \/ \E p \in Pages : removeItem(p)
    \/ \E p \in Pages : clearStorage(p)
    \/ \E p \in Pages : getKeys(p)
    \/ \E p \in Pages : getLength(p)
    \/ \E p \in Pages : enumerateItems(p)
    \/ \E c \in pending : setItemResume(c)
    \/ \E c \in pending : getItemResume(c)
    \/ \E c \in pending : removeItemResume(c)
    \/ \E c \in pending : clearStorageResume(c)
    \/ \E c \in pending : getKeysResume(c)
    \/ \E c \in pending : getLengthResume(c)
    \/ \E c \in pending : forEachBegin(c)
    \/ \E c \in pending : forEachVisit(c)
    \/ \E c \in pending : enumerateItemsResume(c)
    \/ \E c \in pending : Reject(c)

Spec == Init /\ [][Next]_vars

\* ---------------------------------------------------------------- claims

\* Keys the user has set, with a handler that settled, and not removed or
\* cleared since.
LiveKeys == {k \in Keys : shadow[k].how = "set"}

\* The elements of a sequence.
Range(q) == {q[i] : i \in 1..Len(q)}

\* C1: round trip.  Once a setItem of key k and value v has settled, a getItem
\* of k that settles with no set, remove or clear of k in between returns v.
C1_RoundTrip ==
    (last.h = "getItem" /\ last.ok /\ shadow[last.fkey].how = "set")
        => last.res = shadow[last.fkey].val

\* C1 happens: a value typed by the user was set and then read back.
C1_Witness ==
    /\ last.h = "getItem" /\ last.ok
    /\ shadow[last.fkey].how = "set"
    /\ shadow[last.fkey].id > 0
    /\ last.res = "x"
    /\ output[last.page] = "Get : x"

\* C2: a storage operation invoked before the page's initialization has
\* completed is rejected: it is never handed to the engine, and when it
\* settles it has failed.
C2_RejectedBeforeInitialized ==
    /\ \A c \in pending : ~c.early
    /\ last.early => ~last.ok

\* C3: at most one driver selection is in flight at any time; a caller that
\* initializes while an initialization is in flight waits for that one.
C3_OneSelectionInFlight ==
    Cardinality({p \in Pages : handle[p] = "inflight"}) <= 1

\* C4: initialization is idempotent: once an initialization has succeeded, a
\* later one selects no driver again.
C4_NoSecondSelection ==
    [][(\E p \in Pages : handle[p] = "ready")
          => driverSelections' = driverSelections]_vars

\* C5: after a removeItem of key k has settled, a getItem of k that settles
\* with no set of k in between returns null, whether or not k had an entry;
\* the removeItem itself succeeds and leaves no entry for k.
C5_RemoveThenGetAbsent ==
    /\ (last.h = "getItem" /\ last.ok /\ shadow[last.fkey].how = "remove")
          => last.res = Null
    /\ (last.h = "removeItem" /\ last.ok) => store[last.fkey] = Null

\* C5 happens: a key that had been set was removed and then read as null.
C5_Witness ==
    /\ last.h = "getItem" /\ last.ok
    /\ shadow[last.fkey].how = "remove"
    /\ shadow[last.fkey].val # Null
    /\ last.res = Null
    /\ output[last.page] = "Get : null"

\* C6: after a clearStorage has settled, with no set since, getLength reports
\* 0 and getKeys reports no key, whatever the store held before.
C6_ClearThenEmpty ==
    ((\E k \in Keys : shadow[k].how = "clear") /\ LiveKeys = {} /\ last.ok)
        => /\ last.h = "getLength" => (last.n = 0 /\ output[last.page] = LengthMsg(0))
           /\ last.h = "getKeys" => (last.ks = <<>> /\ output[last.page] = KeysMsg(<<>>))

\* C6 happens: the store held an entry, was cleared, and then reported length 0.
C6_Witness ==
    /\ last.h = "getLength" /\ last.ok
    /\ \E k \in Keys : shadow[k].how = "clear" /\ shadow[k].val # Null
    /\ LiveKeys = {}
    /\ last.n = 0

C8_FailureLogged ==
    (last.h # "none" /\ ~last.ok)
        => \E i \in 1..Len(console) : console[i].id = last.id

\* C9: a handler whose storage call fails catches the error: it logs it to the
\* console and writes an error message to output.
C9_HandlerCatches ==
    (last.h # "none" /\ ~last.ok)
        => (last.wrote /\ Len(console) > 0)

\* C10: no queueing across callers.  The value stored after a setItem settles
\* is that setItem's value, also when a setItem of the same key that was
\* issued later has settled before it.
C10_LastToSettleWins ==
    (last.h = "setItem" /\ last.ok) => store[last.fkey] = last.fval

\* C10 happens: of two overlapping sets of one key with different values, the
\* one issued first settled last, and its value is the one stored.
C10_Witness ==
    /\ last.h = "setItem" /\ last.ok
    /\ last.prev > last.id
    /\ last.pval # last.fval
    /\ store[last.fkey] = last.fval

\* The output enumerateItems is to show for the entries of store s listed in
\* the order q: one line per entry, numbered from i.
RECURSIVE Listing(_, _, _)
Listing(q, s, i) ==
    IF i > Len(q) THEN ""
    ELSE "Key: " \o q[i] \o ", Value: " \o Str(s[q[i]]) \o ", Index: "
            \o ToString(i) \o "\n" \o Listing(q, s, i + 1)

C13_OutputNamesTheCall ==
    /\ (last.h = "setItem" /\ last.ok)
          => output[last.page] = SetMsg(last.fkey, last.fval)
    /\ (last.h = "getItem" /\ last.ok)
          => output[last.page] = GetMsg(last.fkey, last.res)

=============================================================================
